---------------------------- MODULE Spec2Model ----------------------------
(***************************************************************************)
(* Model of app.py, the Streamlit sales dashboard.                         *)
(*                                                                         *)
(* Streamlit executes the whole script top to bottom once per user         *)
(* interaction (a "run"), one script thread per browser session.  The      *)
(* script's globals are local to the run; what sessions share is the       *)
(* process (the st.cache_data cache) and the machine (sales_data.csv, the  *)
(* wkhtmltopdf binary, the files under tempfile.gettempdir()).             *)
(*                                                                         *)
(* Amounts (Sales, Profit) are fixed-point numbers counted in units of     *)
(* 1/Scale, so that int() and round() are real conversions.                *)
(***************************************************************************)
EXTENDS Integers, Sequences, FiniteSets, TLC

\* ------------------------------------------------------------------ bounds
MaxLen == 2          \* rows of sales_data.csv
Scale == 2           \* amounts are counted in units of 1/Scale

\* ------------------------------------------------------------- input space
Sessions == {"s1", "s2"}

\* Region names in Python's string order (what groupby sorts by).
RegionOrder == <<"East", "West">>

\* Rows the CSV may hold: a sale at a loss, a sale at a gain, zero sales
\* with a loss, zero sales with a gain.
Rows ==
  { [Date |-> 2, Region |-> "West", Product |-> "B", Sales |-> 3, Profit |-> -1],
    [Date |-> 1, Region |-> "East", Product |-> "A", Sales |-> 2, Profit |-> 1],
    [Date |-> 3, Region |-> "East", Product |-> "B", Sales |-> 0, Profit |-> -3],
    [Date |-> 1, Region |-> "West", Product |-> "A", Sales |-> 0, Profit |-> 2] }

Datasets == UNION {[1..n -> Rows] : n \in 0..MaxLen}

\* sales_data.csv on disk: present with some rows, or not there.
Present(rows) == [exists |-> TRUE, rows |-> rows]
Absent == [exists |-> FALSE, rows |-> <<>>]

\* ------------------------------------------------------- pandas / builtins
RECURSIVE SumCol(_, _)
\* Series.sum() of column col ("Sales" or "Profit") of a table.
SumCol(rows, col) ==
  IF rows = <<>> THEN 0 ELSE rows[1][col] + SumCol(Tail(rows), col)

\* Series.unique() as the set of option values of a multiselect.
UniqueValues(rows, col) == {rows[i][col] : i \in 1..Len(rows)}

\* FilterRows with the two masks joined by | instead of &.
FilterRowsEither(rows, rs, ps) ==
  SelectSeq(rows, LAMBDA r : r.Region \in rs \/ r.Product \in ps)

\* df[(df["Region"].isin(regions)) & (df["Product"].isin(products))]
FilterRows(rows, rs, ps) ==
  SelectSeq(rows, LAMBDA r : r.Region \in rs /\ r.Product \in ps)

\* IntTrunc as math.floor would convert.
IntFloor(x) == x \div Scale

\* int(x): truncation toward zero of an amount counted in 1/Scale.
IntTrunc(x) == IF x >= 0 THEN x \div Scale ELSE -((-x) \div Scale)

\* n/d rounded to the nearest integer, ties to even (d > 0).
RoundHalfEven(n, d) ==
  LET q == n \div d
      r == n % d
  IN  IF 2 * r < d THEN q
      ELSE IF 2 * r > d THEN q + 1
      ELSE IF q % 2 = 0 THEN q ELSE q + 1

\* round((profit / sales) * 100, 2) on numpy floats, the value counted in
\* hundredths of a percent; x/0 is nan, inf or -inf (numpy warns, no raise).
Margin(profit, sales) ==
  IF sales # 0
    THEN [kind |-> "num",
          val |-> IF sales > 0 THEN RoundHalfEven(profit * 100 * 100, sales)
                               ELSE RoundHalfEven(-profit * 100 * 100, -sales)]
    ELSE IF profit = 0 THEN [kind |-> "nan", val |-> 0]
    ELSE IF profit > 0 THEN [kind |-> "inf", val |-> 0]
    ELSE [kind |-> "-inf", val |-> 0]

\* GroupByRegion keeping a row for every region name, as groupby does on a
\* categorical column.
GroupByRegionAll(rows) ==
  LET Of(g) == SelectSeq(rows, LAMBDA r : r.Region = g)
  IN  [k \in 1..Len(RegionOrder) |->
         [Region |-> RegionOrder[k],
          Sales |-> SumCol(Of(RegionOrder[k]), "Sales"),
          Profit |-> SumCol(Of(RegionOrder[k]), "Profit")]]

\* filtered_df.groupby("Region")[["Sales", "Profit"]].sum().reset_index():
\* one row per region that occurs, sorted by region.
GroupByRegion(rows) ==
  LET present == SelectSeq(RegionOrder,
                           LAMBDA g : \E i \in 1..Len(rows) : rows[i].Region = g)
      Of(g) == SelectSeq(rows, LAMBDA r : r.Region = g)
  IN  [k \in 1..Len(present) |->
         [Region |-> present[k],
          Sales |-> SumCol(Of(present[k]), "Sales"),
          Profit |-> SumCol(Of(present[k]), "Profit")]]

RECURSIVE FirstSeen(_, _)
\* The regions of a table in order of first appearance (px trace order).
FirstSeen(rows, seen) ==
  IF rows = <<>> THEN <<>>
  ELSE IF rows[1].Region \in seen THEN FirstSeen(Tail(rows), seen)
  ELSE <<rows[1].Region>> \o FirstSeen(Tail(rows), seen \cup {rows[1].Region})

\* px.line(filtered_df, x="Date", y="Sales", color="Region"): one trace per
\* region, its points in row order.
SalesTrend(rows) ==
  LET names == FirstSeen(rows, {})
      Of(g) == SelectSeq(rows, LAMBDA r : r.Region = g)
  IN  [k \in 1..Len(names) |->
         [name |-> names[k],
          points |-> [i \in 1..Len(Of(names[k])) |->
                        <<Of(names[k])[i].Date, Of(names[k])[i].Sales>>]]]

\* px.pie(filtered_df, names="Product", values="Sales")
ProductPie(rows) ==
  [i \in 1..Len(rows) |-> <<rows[i].Product, rows[i].Sales>>]

\* pio.write_image(fig, path): the PNG bytes of a figure.
Png(fig) == <<"png", fig>>
\* base64.b64encode(bytes).decode()
B64(bytes) == <<"b64", bytes>>

\* -------------------------------------------------------------------- state
VARIABLES
  file,               \* sales_data.csv
  wkhtmltopdf,        \* the binary at path_wkhtmltopdf: "ok", "missing", "broken"
  cache,              \* st.cache_data entry of load_data()
  scratch,            \* the three PNG files under tempfile.gettempdir()
  pc,                 \* per session: where its script run stands
  button,             \* per session: this run was triggered by the PDF button
  didRead,            \* per session: this run's load_data() ran pd.read_csv
  executed,           \* per session: the script sections this run executed
  df, regions, products, filtered_df,
  total_sales, total_profit, avg_profit_margin,
  figs,               \* per session: sales_trend, region_bar, product_pie
  b64,                \* per session: sales_b64, region_b64, product_b64
  shown,              \* per session: what the browser shows
  report,             \* per session: the PDF this run produced
  lastReport          \* per session: the PDF an earlier run produced from
                      \* the Filter Selection that is still in force

env == <<file, wkhtmltopdf, cache, scratch>>
locals == <<df, regions, products, filtered_df, total_sales, total_profit,
            avg_profit_margin, figs, b64>>
vars == <<file, wkhtmltopdf, cache, scratch, pc, button, didRead, executed,
          df, regions, products, filtered_df, total_sales, total_profit,
          avg_profit_margin, figs, b64, shown, report, lastReport>>

NoMargin == [kind |-> "unset", val |-> 0]
NoFigs == [sales_trend |-> <<>>, region_bar |-> <<>>, product_pie |-> <<>>]
NoImages == [sales |-> <<>>, region |-> <<>>, product |-> <<>>]
Blank == [error |-> FALSE, exception |-> FALSE, kpi |-> <<>>, charts |-> <<>>,
          download |-> FALSE]

\* The process has started and no script run has happened yet; the sessions
\* of `connected` have a browser attached, the others never run the script.
Start(connected) ==
  /\ cache = [full |-> FALSE, value |-> <<>>]
  /\ scratch = NoImages
  /\ pc = [s \in Sessions |-> IF s \in connected THEN "idle" ELSE "offline"]
  /\ button = [s \in Sessions |-> FALSE]
  /\ didRead = [s \in Sessions |-> FALSE]
  /\ executed = [s \in Sessions |-> {}]
  /\ df = [s \in Sessions |-> <<>>]
  /\ regions = [s \in Sessions |-> {}]
  /\ products = [s \in Sessions |-> {}]
  /\ filtered_df = [s \in Sessions |-> <<>>]
  /\ total_sales = [s \in Sessions |-> 0]
  /\ total_profit = [s \in Sessions |-> 0]
  /\ avg_profit_margin = [s \in Sessions |-> NoMargin]
  /\ figs = [s \in Sessions |-> NoFigs]
  /\ b64 = [s \in Sessions |-> NoImages]
  /\ shown = [s \in Sessions |-> Blank]
  /\ report = [s \in Sessions |-> <<>>]
  /\ lastReport = [s \in Sessions |-> <<>>]

\* One browser session, any CSV of up to MaxLen rows or none, any state of
\* the wkhtmltopdf binary.
Init ==
  /\ file \in {Absent} \cup {Present(d) : d \in Datasets}
  /\ wkhtmltopdf \in {"ok", "missing", "broken"}
  /\ Start({"s1"})

\* Two browser sessions on one machine, a CSV of one row.
SharedRows ==
  << [Date |-> 2, Region |-> "West", Product |-> "B", Sales |-> 3, Profit |-> -1] >>

InitShared ==
  /\ file = Present(SharedRows)
  /\ wkhtmltopdf \in {"ok", "broken"}
  /\ Start(Sessions)

\* ------------------------------------------------------------------ actions
\* A user interaction (page load, filter change, button click) starts a run
\* of the script with fresh globals.
Rerun(s) ==
  /\ pc[s] \in {"idle", "done", "stopped", "crashed"}
  /\ \E b \in BOOLEAN : button' = [button EXCEPT ![s] = b]
  /\ pc' = [pc EXCEPT ![s] = "configure"]
  /\ didRead' = [didRead EXCEPT ![s] = FALSE]
  /\ executed' = [executed EXCEPT ![s] = {}]
  /\ df' = [df EXCEPT ![s] = <<>>]
  /\ regions' = [regions EXCEPT ![s] = {}]
  /\ products' = [products EXCEPT ![s] = {}]
  /\ filtered_df' = [filtered_df EXCEPT ![s] = <<>>]
  /\ total_sales' = [total_sales EXCEPT ![s] = 0]
  /\ total_profit' = [total_profit EXCEPT ![s] = 0]
  /\ avg_profit_margin' = [avg_profit_margin EXCEPT ![s] = NoMargin]
  /\ figs' = [figs EXCEPT ![s] = NoFigs]
  /\ b64' = [b64 EXCEPT ![s] = NoImages]
  /\ shown' = [shown EXCEPT ![s] = Blank]
  /\ report' = [report EXCEPT ![s] = <<>>]
  /\ lastReport' = [lastReport EXCEPT ![s] =
                      IF report[s] # <<>> THEN report[s] ELSE @]
  /\ UNCHANGED env

\* config = pdfkit.configuration(wkhtmltopdf=path_wkhtmltopdf): the
\* constructor opens the binary and raises IOError when it is not there.
Configure(s) ==
  /\ pc[s] = "configure"
  /\ IF wkhtmltopdf = "missing"
       THEN /\ pc' = [pc EXCEPT ![s] = "crashed"]
            /\ shown' = [shown EXCEPT ![s].exception = TRUE]
       ELSE /\ pc' = [pc EXCEPT ![s] = "load"]
            /\ UNCHANGED shown
  /\ UNCHANGED <<env, button, didRead, executed, locals, report, lastReport>>

\* LoadData without st.stop(): the error is shown and the run goes on with
\* an empty table.
LoadDataNoStop(s) ==
  /\ pc[s] = "load"
  /\ IF cache.full
       THEN /\ df' = [df EXCEPT ![s] = cache.value]
            /\ executed' = [executed EXCEPT ![s] = @ \cup {"load"}]
            /\ UNCHANGED <<cache, didRead, shown>>
       ELSE /\ didRead' = [didRead EXCEPT ![s] = TRUE]
            /\ IF file.exists
                 THEN /\ cache' = [full |-> TRUE, value |-> file.rows]
                      /\ df' = [df EXCEPT ![s] = file.rows]
                      /\ executed' = [executed EXCEPT ![s] = @ \cup {"load"}]
                      /\ UNCHANGED shown
                 ELSE /\ shown' = [shown EXCEPT ![s].error = TRUE]
                      /\ UNCHANGED <<cache, df, executed>>
  /\ pc' = [pc EXCEPT ![s] = "filter"]
  /\ UNCHANGED <<file, wkhtmltopdf, scratch, button, regions, products,
                 filtered_df, total_sales, total_profit, avg_profit_margin,
                 figs, b64, report, lastReport>>

\* LoadData without @st.cache_data: every run reads the CSV again.
LoadDataNoCache(s) ==
  /\ pc[s] = "load"
  /\ didRead' = [didRead EXCEPT ![s] = TRUE]
  /\ IF file.exists
       THEN /\ cache' = [full |-> TRUE, value |-> file.rows]
            /\ df' = [df EXCEPT ![s] = file.rows]
            /\ pc' = [pc EXCEPT ![s] = "filter"]
            /\ executed' = [executed EXCEPT ![s] = @ \cup {"load"}]
            /\ UNCHANGED shown
       ELSE /\ shown' = [shown EXCEPT ![s].error = TRUE]
            /\ pc' = [pc EXCEPT ![s] = "stopped"]
            /\ UNCHANGED <<cache, df, executed>>
  /\ UNCHANGED <<file, wkhtmltopdf, scratch, button, regions, products,
                 filtered_df, total_sales, total_profit, avg_profit_margin,
                 figs, b64, report, lastReport>>

\* try: df = load_data()  except FileNotFoundError: st.error; st.stop()
LoadData(s) ==
  /\ pc[s] = "load"
  /\ IF cache.full
       THEN /\ df' = [df EXCEPT ![s] = cache.value]
            /\ pc' = [pc EXCEPT ![s] = "filter"]
            /\ executed' = [executed EXCEPT ![s] = @ \cup {"load"}]
            /\ UNCHANGED <<cache, didRead, shown>>
       ELSE /\ didRead' = [didRead EXCEPT ![s] = TRUE]
            /\ IF file.exists
                 THEN /\ cache' = [full |-> TRUE, value |-> file.rows]
                      /\ df' = [df EXCEPT ![s] = file.rows]
                      /\ pc' = [pc EXCEPT ![s] = "filter"]
                      /\ executed' = [executed EXCEPT ![s] = @ \cup {"load"}]
                      /\ UNCHANGED shown
                 ELSE /\ shown' = [shown EXCEPT ![s].error = TRUE]
                      /\ pc' = [pc EXCEPT ![s] = "stopped"]
                      /\ UNCHANGED <<cache, df, executed>>
  /\ UNCHANGED <<file, wkhtmltopdf, scratch, button, regions, products,
                 filtered_df, total_sales, total_profit, avg_profit_margin,
                 figs, b64, report, lastReport>>

\* The two multiselects return the user's current selection among the
\* values of the column; filtered_df is the rows matching both.
Filter(s) ==
  /\ pc[s] = "filter"
  /\ \E rs \in SUBSET UniqueValues(df[s], "Region"),
        ps \in SUBSET UniqueValues(df[s], "Product") :
        /\ regions' = [regions EXCEPT ![s] = rs]
        /\ products' = [products EXCEPT ![s] = ps]
        /\ filtered_df' = [filtered_df EXCEPT ![s] = FilterRows(df[s], rs, ps)]
        /\ lastReport' = [lastReport EXCEPT ![s] =
                            IF @ # <<>> /\ @[1].regions = rs /\ @[1].products = ps
                              THEN @ ELSE <<>>]
  /\ pc' = [pc EXCEPT ![s] = "kpi"]
  /\ executed' = [executed EXCEPT ![s] = @ \cup {"filter"}]
  /\ UNCHANGED <<env, button, didRead, df, total_sales, total_profit,
                 avg_profit_margin, figs, b64, shown, report>>

\* KPI VALUES and the KPI SECTION: the three values are computed and put
\* into the html handed to components.html.
Kpi(s) ==
  /\ pc[s] = "kpi"
  /\ LET sales == SumCol(filtered_df[s], "Sales")
         profit == SumCol(filtered_df[s], "Profit")
     IN  /\ total_sales' = [total_sales EXCEPT ![s] = IntTrunc(sales)]
         /\ total_profit' = [total_profit EXCEPT ![s] = IntTrunc(profit)]
         /\ avg_profit_margin' =
              [avg_profit_margin EXCEPT ![s] = Margin(profit, sales)]
         /\ shown' = [shown EXCEPT ![s].kpi =
                        <<[sales |-> IntTrunc(sales),
                           profit |-> IntTrunc(profit),
                           margin |-> Margin(profit, sales)]>>]
  /\ pc' = [pc EXCEPT ![s] = "charts"]
  /\ executed' = [executed EXCEPT ![s] = @ \cup {"kpi"}]
  /\ UNCHANGED <<env, button, didRead, df, regions, products, filtered_df,
                 figs, b64, report, lastReport>>

\* CHARTS: the three figures are built and handed to st.plotly_chart.
Charts(s) ==
  /\ pc[s] = "charts"
  /\ LET f == [sales_trend |-> SalesTrend(filtered_df[s]),
               region_bar |-> GroupByRegion(filtered_df[s]),
               product_pie |-> ProductPie(filtered_df[s])]
     IN  /\ figs' = [figs EXCEPT ![s] = f]
         /\ shown' = [shown EXCEPT ![s].charts = <<f>>]
  /\ pc' = [pc EXCEPT ![s] = "save"]
  /\ executed' = [executed EXCEPT ![s] = @ \cup {"charts"}]
  /\ UNCHANGED <<env, button, didRead, df, regions, products, filtered_df,
                 total_sales, total_profit, avg_profit_margin, b64, report,
                 lastReport>>

\* SAVE CHART IMAGES: the three figures are written to sales_chart.png,
\* region_chart.png and product_chart.png under tempfile.gettempdir().
SaveChartImages(s) ==
  /\ pc[s] = "save"
  /\ scratch' = [sales |-> Png(figs[s].sales_trend),
                 region |-> Png(figs[s].region_bar),
                 product |-> Png(figs[s].product_pie)]
  /\ pc' = [pc EXCEPT ![s] = "encode"]
  /\ executed' = [executed EXCEPT ![s] = @ \cup {"save"}]
  /\ UNCHANGED <<file, wkhtmltopdf, cache, button, didRead, locals, shown,
                 report, lastReport>>

\* sales_b64 = encode_img(sales_chart_path), and the other two.
EncodeImages(s) ==
  /\ pc[s] = "encode"
  /\ b64' = [b64 EXCEPT ![s] = [sales |-> B64(scratch.sales),
                                region |-> B64(scratch.region),
                                product |-> B64(scratch.product)]]
  /\ pc' = [pc EXCEPT ![s] = "button"]
  /\ executed' = [executed EXCEPT ![s] = @ \cup {"encode"}]
  /\ UNCHANGED <<env, button, didRead, df, regions, products, filtered_df,
                 total_sales, total_profit, avg_profit_margin, figs, shown,
                 report, lastReport>>

\* if st.button("Generate & Download PDF Report"): the html is composed
\* from the KPI values and the three base64 images and handed to
\* pdfkit.from_file, which raises when wkhtmltopdf does not work.
GenerateReport(s) ==
  /\ pc[s] = "button"
  /\ IF ~button[s]
       THEN /\ pc' = [pc EXCEPT ![s] = "done"]
            /\ UNCHANGED <<executed, shown, report>>
       ELSE /\ executed' = [executed EXCEPT ![s] = @ \cup {"report"}]
            /\ IF wkhtmltopdf = "ok"
                 THEN /\ report' = [report EXCEPT ![s] =
                            <<[regions |-> regions[s],
                               products |-> products[s],
                               total_sales |-> total_sales[s],
                               total_profit |-> total_profit[s],
                               avg_profit_margin |-> avg_profit_margin[s],
                               images |-> b64[s]]>>]
                      /\ shown' = [shown EXCEPT ![s].download = TRUE]
                      /\ pc' = [pc EXCEPT ![s] = "done"]
                 ELSE /\ shown' = [shown EXCEPT ![s].exception = TRUE]
                      /\ pc' = [pc EXCEPT ![s] = "crashed"]
                      /\ UNCHANGED report
  /\ UNCHANGED <<env, button, didRead, locals, lastReport>>

\* Outside the program: sales_data.csv is removed, or rewritten shorter.
DeleteFile ==
  /\ file.exists
  /\ file' = Absent
  /\ UNCHANGED <<wkhtmltopdf, cache, scratch, pc, button, didRead, executed,
                 locals, shown, report, lastReport>>

RewriteFile ==
  /\ file.exists /\ file.rows # <<>>
  /\ file' = Present(Tail(file.rows))
  /\ UNCHANGED <<wkhtmltopdf, cache, scratch, pc, button, didRead, executed,
                 locals, shown, report, lastReport>>

Next ==
  \/ \E s \in Sessions :
       \/ Rerun(s)
       \/ Configure(s)
       \/ LoadData(s)
       \/ Filter(s)
       \/ Kpi(s)
       \/ Charts(s)
       \/ SaveChartImages(s)
       \/ EncodeImages(s)
       \/ GenerateReport(s)
  \/ DeleteFile
  \/ RewriteFile

Spec == Init /\ [][Next]_vars

SpecShared == InitShared /\ [][Next]_vars

\* ------------------------------------------------------------ properties
\* Stated from the Dataset and the Filter Selection alone, by row index.

\* The indexes of the rows of session s's Dataset that its Filter Selection
\* admits.
Matching(s) ==
  {i \in 1..Len(df[s]) :
     df[s][i].Region \in regions[s] /\ df[s][i].Product \in products[s]}

\* The k-th smallest member of a set of indexes.
Nth(I, k) == CHOOSE i \in I : Cardinality({j \in I : j <= i}) = k

RECURSIVE SumAt(_, _, _)
\* The sum of column col over the rows of `rows` at the indexes I.
SumAt(rows, I, col) ==
  IF I = {} THEN 0
  ELSE LET i == CHOOSE j \in I : TRUE
       IN  rows[i][col] + SumAt(rows, I \ {i}, col)

\* t is amount x (in units of 1/Scale) with its fraction cut off.
IsTruncationOf(t, x) ==
  IF x >= 0 THEN t * Scale <= x /\ x < (t + 1) * Scale
            ELSE (t - 1) * Scale < x /\ x <= t * Scale

Pos(g) == CHOOSE i \in 1..Len(RegionOrder) : RegionOrder[i] = g

\* C1: once a run has filtered, its Filtered View holds exactly the rows of
\* the Dataset whose region is selected and whose product is selected, each
\* once, in the Dataset's order.
C1_FilteredViewExact ==
  \A s \in Sessions :
    "filter" \in executed[s] =>
      /\ Len(filtered_df[s]) = Cardinality(Matching(s))
      /\ \A k \in 1..Len(filtered_df[s]) :
           filtered_df[s][k] = df[s][Nth(Matching(s), k)]

\* C1 witness: a run has filtered a Dataset of two or more rows down to a
\* proper, non-empty part that drops the first row.
C1_Witness ==
  \E s \in Sessions :
    /\ "filter" \in executed[s]
    /\ Len(df[s]) >= 2
    /\ Matching(s) # {}
    /\ 1 \notin Matching(s)

\* C2 as claimed: the total sales and total profit on screen equal the sums
\* of sales and of profit over the rows the current Filter Selection admits.
C2_TotalsEqualSums ==
  \A s \in Sessions :
    shown[s].kpi # <<>> =>
      /\ shown[s].kpi[1].sales * Scale = SumAt(df[s], Matching(s), "Sales")
      /\ shown[s].kpi[1].profit * Scale = SumAt(df[s], Matching(s), "Profit")

\* C2 amended: the totals on screen are the sums of sales and of profit
\* over the rows the current Filter Selection admits, each with its
\* fraction cut off (toward zero).
C2_TotalsAreTruncatedSums ==
  \A s \in Sessions :
    shown[s].kpi # <<>> =>
      /\ IsTruncationOf(shown[s].kpi[1].sales,
                        SumAt(df[s], Matching(s), "Sales"))
      /\ IsTruncationOf(shown[s].kpi[1].profit,
                        SumAt(df[s], Matching(s), "Profit"))

\* C2 witness: totals are on screen for a Filtered View that is a proper
\* part of the Dataset, whose sums differ from the Dataset's, with a
\* fractional sales sum and a negative fractional profit sum.
C2_Witness ==
  \E s \in Sessions :
    /\ shown[s].kpi # <<>>
    /\ Cardinality(Matching(s)) < Len(df[s])
    /\ SumAt(df[s], Matching(s), "Sales") # SumCol(df[s], "Sales")
    /\ SumAt(df[s], Matching(s), "Sales") % Scale # 0
    /\ SumAt(df[s], Matching(s), "Profit") < 0
    /\ SumAt(df[s], Matching(s), "Profit") % Scale # 0

\* m (hundredths of a percent) is profit / sales * 100 to the nearest
\* hundredth, for sales > 0.
IsNearestHundredth(m, profit, sales) ==
  LET twice == 2 * (m * sales - profit * 100 * 100)
  IN  -sales <= twice /\ twice <= sales

\* C3 as claimed: the margin is round(total_profit / total_sales * 100, 2)
\* when the sales of the Filtered View sum to more than 0, and a defined
\* fallback value, no nan and no infinity, when they sum to 0.
C3_MarginDefined ==
  \A s \in Sessions :
    "kpi" \in executed[s] =>
      LET sales == SumAt(df[s], Matching(s), "Sales")
          profit == SumAt(df[s], Matching(s), "Profit")
      IN  /\ sales > 0 =>
               /\ avg_profit_margin[s].kind = "num"
               /\ IsNearestHundredth(avg_profit_margin[s].val, profit, sales)
          /\ sales = 0 =>
               /\ avg_profit_margin[s].kind \notin {"nan", "inf", "-inf"}
               /\ shown[s].kpi[1].margin.kind \notin {"nan", "inf", "-inf"}

\* C4: a run whose load_data() read the CSV and did not get a table has
\* the error on screen and is stopped, having filtered, aggregated, drawn,
\* saved and reported nothing; and no run executes any of these sections
\* without having loaded the Dataset.
C4_AbsentFileHalts ==
  \A s \in Sessions :
    /\ (didRead[s] /\ "load" \notin executed[s] /\ pc[s] # "load") =>
         /\ shown[s].error
         /\ pc[s] = "stopped"
         /\ executed[s] = {}
         /\ shown[s].kpi = <<>> /\ shown[s].charts = <<>>
         /\ ~shown[s].download /\ report[s] = <<>>
         /\ filtered_df[s] = <<>> /\ figs[s] = NoFigs /\ b64[s] = NoImages
    /\ executed[s] # {} => "load" \in executed[s]

\* C4 witness: a run read the CSV, found none, and stands stopped with the
\* error on screen.
C4_Witness ==
  \E s \in Sessions :
    didRead[s] /\ ~file.exists /\ ~cache.full /\ pc[s] = "stopped"
      /\ shown[s].error

\* C5 as claimed: with no region selected or no product selected, the
\* Filtered View is empty, both totals are zero, the margin is a defined
\* fallback value, the by-region and by-product summaries are empty, and a
\* requested report is produced.
C5_EmptySelection ==
  \A s \in Sessions :
    (pc[s] = "done" /\ (regions[s] = {} \/ products[s] = {})) =>
      /\ filtered_df[s] = <<>>
      /\ total_sales[s] = 0 /\ total_profit[s] = 0
      /\ avg_profit_margin[s].kind \notin {"nan", "inf", "-inf"}
      /\ figs[s].region_bar = <<>> /\ figs[s].product_pie = <<>>
      /\ button[s] => report[s] # <<>>

\* C6 as claimed: with wkhtmltopdf missing or not working, every run that
\* has a Dataset to load still ends with the KPIs and the three charts of
\* its Filtered View on screen.
C6_DashboardSurvives ==
  \A s \in Sessions :
    (wkhtmltopdf # "ok" /\ pc[s] \in {"done", "crashed"}
       /\ (cache.full \/ file.exists)) =>
      /\ shown[s].kpi # <<>>
      /\ shown[s].charts = <<figs[s]>>
      /\ "charts" \in executed[s]

\* C7 as claimed: the chart images a run reads back from the scratch files
\* are the images of its own three figures.
C7_OwnImages ==
  \A s \in Sessions :
    "encode" \in executed[s] =>
      b64[s] = [sales |-> B64(Png(figs[s].sales_trend)),
                region |-> B64(Png(figs[s].region_bar)),
                product |-> B64(Png(figs[s].product_pie))]

\* C9 as claimed: a report generated under the Filter Selection of an
\* earlier report of the session carries the same total sales, total
\* profit and margin and the same three charts as that earlier report.
C9_SameReport ==
  \A s \in Sessions :
    (report[s] # <<>> /\ lastReport[s] # <<>>
       /\ report[s][1].regions = lastReport[s][1].regions
       /\ report[s][1].products = lastReport[s][1].products) =>
      report[s] = lastReport[s]

\* C10: the by-region summary of a run has one entry per region occurring
\* among the rows its Filter Selection admits and no other, each with the
\* sums of sales and of profit of the admitted rows of that region, the
\* entries sorted by region name.
C10_ByRegion ==
  \A s \in Sessions :
    "charts" \in executed[s] =>
      LET bar == figs[s].region_bar
          In(g) == {i \in Matching(s) : df[s][i].Region = g}
      IN  /\ {bar[k].Region : k \in 1..Len(bar)}
               = {df[s][i].Region : i \in Matching(s)}
          /\ \A j, k \in 1..Len(bar) :
               j < k => Pos(bar[j].Region) < Pos(bar[k].Region)
          /\ \A k \in 1..Len(bar) :
               /\ bar[k].Sales = SumAt(df[s], In(bar[k].Region), "Sales")
               /\ bar[k].Profit = SumAt(df[s], In(bar[k].Region), "Profit")

\* C10 witness: a run summarised a Filtered View whose first row is of a
\* later region name than its second row, into two entries.
C10_Witness ==
  \E s \in Sessions :
    /\ "charts" \in executed[s]
    /\ Len(filtered_df[s]) >= 2
    /\ Pos(filtered_df[s][1].Region) > Pos(filtered_df[s][2].Region)
    /\ Len(figs[s].region_bar) = 2

\* C8: every run that loaded holds the table in the cache; once filled the
\* cache never changes, whatever happens to the CSV; it was filled with
\* the rows the CSV held at that moment; and a run that calls load_data()
\* with the cache filled gets that table without reading the CSV.
C8_LoadedOnce ==
  /\ [](\A s \in Sessions :
          "load" \in executed[s] => cache.full /\ df[s] = cache.value)
  /\ [][/\ cache.full => cache' = cache
        /\ (~cache.full /\ cache'.full) => cache'.value = file.rows
        /\ \A s \in Sessions :
             (cache.full /\ pc[s] = "load" /\ pc'[s] # "load") =>
               /\ ~didRead'[s]
               /\ pc'[s] = "filter"
               /\ df'[s] = cache.value]_vars

\* C8 witness: the CSV no longer holds what was loaded, and a run that
\* called load_data() after that has the loaded table without having read.
C8_Witness ==
  \E s \in Sessions :
    /\ cache.full
    /\ file # Present(cache.value)
    /\ "load" \in executed[s]
    /\ ~didRead[s]
    /\ df[s] = cache.value /\ df[s] # <<>>

====
